---------------------------- MODULE Spec2Model ----------------------------
(***************************************************************************)
(* Model of the tcw3 platform-abstraction bridge of Stella2.               *)
(*                                                                         *)
(*  - Spec: the GTK window widget (tcw3/pal/src/gtk/wndwidget.c).  The     *)
(*    GTK main loop delivers native events one at a time to the widget's   *)
(*    signal handlers; each handler translates the event and calls at most  *)
(*    one upstream handler declared in window.h (defined in window.rs).    *)
(*  - SpecHandle: the opaque-handle protocol of the macOS bridge           *)
(*    (tcw3/pal/src/macos/TCWBridge.h): listener and timer capabilities    *)
(*    and the calls made on them.                                          *)
(*  - SpecArbiter: the gesture hand-off between a window's primary view    *)
(*    and a transient TCWGestureHandlerView                                *)
(*    (tcw3/src/pal/macos/TCWGestureHandlerView.h, TCWWindow.h).           *)
(*    The bridge header only declares these operations; their bodies       *)
(*    (window.rs, timer.rs, the Objective-C views) follow the design       *)
(*    document.                                                            *)
(*                                                                         *)
(* A gdouble is represented by an integer number of units of 2^-16 (the    *)
(* resolution of XInput2's FP1616 coordinates), so that the narrowing      *)
(* conversion to float, which keeps FLT_MANT_DIG significant bits, is      *)
(* modelled as the rounding it is.                                         *)
(***************************************************************************)
EXTENDS Integers, Sequences, FiniteSets, TLC

VARIABLES
    wnd_ptr,   \* _TcwWndWidget.wnd_ptr: the widget's window reference
    native,    \* history: the native events delivered so far, in order
    calls,     \* history: the upstream handler calls made so far, in order
    handles,   \* each capability handle: its kind, state, delivered calls
    attempts,  \* history: the calls attempted on handles, with outcomes
    gesture,   \* per gesture type: the state of the window's arbiter
    surfaces,  \* the transient capture surfaces installed in the window
    nextCap,   \* the number of gesture capabilities issued so far
    signals,   \* history: what the arbiter reported downstream
    requests   \* history: the requests made to the arbiter, with outcomes

gtkvars == <<wnd_ptr, native, calls>>
handlevars == <<handles, attempts>>
arbitervars == <<gesture, surfaces, nextCap, signals, requests>>
vars == <<gtkvars, handlevars, arbitervars>>

\* The number of native events of one behaviour.
MaxEvents == 2

\* The number of capability handles, and of calls attempted on them.
MaxHandles == 2
MaxCalls == 3

\* The number of requests made to the gesture arbiter.
MaxRequests == 4

---------------------------------------------------------------------------
(* Arithmetic of the (float) casts.                                        *)

\* Significand bits of a C float (IEEE 754 binary32).
FLT_MANT_DIG == 24

RECURSIVE Pow2(_)
Pow2(n) == IF n = 0 THEN 1 ELSE 2 * Pow2(n - 1)

Abs(v) == IF v < 0 THEN -v ELSE v

\* n pixels (or scroll units) as a gdouble, in units of 2^-16.
Px(n) == n * 65536

\* The spacing of the floats around magnitude a: the least power of two q
\* with a < 2^FLT_MANT_DIG * q.
RECURSIVE Quantum(_, _)
Quantum(a, q) == IF a < Pow2(FLT_MANT_DIG) * q THEN q ELSE Quantum(a, 2 * q)

\* a >= 0 rounded to a multiple of q, to nearest, ties to even.
RoundHalfEven(a, q) ==
    LET lo == (a \div q) * q
        r  == a - lo
    IN  IF 2 * r < q THEN lo
        ELSE IF 2 * r > q THEN lo + q
        ELSE IF (lo \div q) % 2 = 0 THEN lo ELSE lo + q

\* (float)v for a gdouble v.
ToFloat(v) ==
    IF v < 0 THEN -RoundHalfEven(-v, Quantum(-v, 1))
    ELSE RoundHalfEven(v, Quantum(v, 1))

---------------------------------------------------------------------------
(* The native events GDK delivers to the widget.                           *)

WndPtrs == {4096, 8192}

\* (x, y) of an event: the second and third are not floats.
Points == { <<Px(10), Px(20)>>, <<Px(256) + 1, Px(256) + 3>> }

\* (delta_x, delta_y) of a smooth scroll event: the second is not a float.
Deltas == { <<0, Px(-5)>>, <<Px(256) + 3, -(Px(256) + 1)>> }

\* GdkEventButton.button: 1 is the left button.
Buttons == {1, 3}

\* GdkEventScroll.time, in milliseconds.
Times == {100, 150}

Directions == {"GDK_SCROLL_UP", "GDK_SCROLL_DOWN", "GDK_SCROLL_LEFT",
               "GDK_SCROLL_RIGHT"}

\* What GTK passes to the button_press_event handler.
ButtonPressEvents ==
    [type : {"GDK_BUTTON_PRESS", "GDK_2BUTTON_PRESS", "GDK_3BUTTON_PRESS"},
     pos : Points, button : Buttons]

ButtonReleaseEvents ==
    [type : {"GDK_BUTTON_RELEASE"}, pos : Points, button : Buttons]

MotionEvents == [type : {"GDK_MOTION_NOTIFY"}, pos : Points]

CrossingEvents == [type : {"GDK_LEAVE_NOTIFY"}]

\* The draw signal, with the cairo context to draw on.
DrawEvents == [type : {"draw"}, cr : {"cr"}]

\* The notify::scale-factor signal.
ScaleFactorEvents == [type : {"notify::scale-factor"}]

\* GDK fills delta_x, delta_y only when direction is GDK_SCROLL_SMOOTH;
\* is_stop is a field of its own.
ScrollEvents ==
    [type : {"GDK_SCROLL"}, pos : Points, direction : {"GDK_SCROLL_SMOOTH"},
     delta : Deltas, is_stop : BOOLEAN, time : Times]
    \cup
    [type : {"GDK_SCROLL"}, pos : Points, direction : Directions,
     delta : {<<0, 0>>}, is_stop : BOOLEAN, time : Times]

gdk_event_get_scroll_deltas(event) ==
    event.type = "GDK_SCROLL" /\ event.direction = "GDK_SCROLL_SMOOTH"

gdk_event_is_scroll_stop_event(event) ==
    event.type = "GDK_SCROLL" /\ event.is_stop

gdk_event_get_scroll_direction(event) ==
    event.type = "GDK_SCROLL" /\ event.direction # "GDK_SCROLL_SMOOTH"

---------------------------------------------------------------------------
(* The upstream handlers of window.h: a call is recorded with its          *)
(* arguments; seq is the position in native of the event being handled.    *)

tcw_wnd_widget_draw_handler(p, cr) ==
    [fn |-> "draw_handler", wnd_ptr |-> p, cr |-> cr,
     seq |-> Len(native) + 1]

tcw_wnd_widget_dpi_scale_changed_handler(p) ==
    [fn |-> "dpi_scale_changed_handler", wnd_ptr |-> p,
     seq |-> Len(native) + 1]

tcw_wnd_widget_button_handler(p, x, y, is_pressed, button) ==
    [fn |-> "button_handler", wnd_ptr |-> p, x |-> x, y |-> y,
     is_pressed |-> is_pressed, button |-> button, seq |-> Len(native) + 1]

tcw_wnd_widget_motion_handler(p, x, y) ==
    [fn |-> "motion_handler", wnd_ptr |-> p, x |-> x, y |-> y,
     seq |-> Len(native) + 1]

tcw_wnd_widget_leave_handler(p) ==
    [fn |-> "leave_handler", wnd_ptr |-> p, seq |-> Len(native) + 1]

tcw_wnd_widget_discrete_scroll_handler(p, x, y, delta_x, delta_y) ==
    [fn |-> "discrete_scroll_handler", wnd_ptr |-> p, x |-> x, y |-> y,
     delta_x |-> delta_x, delta_y |-> delta_y, seq |-> Len(native) + 1]

tcw_wnd_widget_smooth_scroll_handler(p, x, y, delta_x, delta_y, time) ==
    [fn |-> "smooth_scroll_handler", wnd_ptr |-> p, x |-> x, y |-> y,
     delta_x |-> delta_x, delta_y |-> delta_y, time |-> time,
     seq |-> Len(native) + 1]

tcw_wnd_widget_smooth_scroll_stop_handler(p, time) ==
    [fn |-> "smooth_scroll_stop_handler", wnd_ptr |-> p, time |-> time,
     seq |-> Len(native) + 1]

\* Mutation of steps: the table with its signs reversed.
steps_reversed(direction) ==
    CASE direction = "GDK_SCROLL_LEFT"  -> <<-1, 0>>
      [] direction = "GDK_SCROLL_RIGHT" -> <<1, 0>>
      [] direction = "GDK_SCROLL_UP"    -> <<0, -1>>
      [] direction = "GDK_SCROLL_DOWN"  -> <<0, 1>>

\* static float steps[4][2], one row per direction.
steps(direction) ==
    CASE direction = "GDK_SCROLL_LEFT"  -> <<1, 0>>
      [] direction = "GDK_SCROLL_RIGHT" -> <<-1, 0>>
      [] direction = "GDK_SCROLL_UP"    -> <<0, 1>>
      [] direction = "GDK_SCROLL_DOWN"  -> <<0, -1>>

---------------------------------------------------------------------------
(* The widget's event handlers.                                            *)

tcw_wnd_widget_draw(event) ==
    /\ native' = Append(native, event)
    /\ calls' = Append(calls, tcw_wnd_widget_draw_handler(wnd_ptr, event.cr))
    /\ UNCHANGED wnd_ptr

tcw_wnd_widget_notify_scale_factor(event) ==
    /\ native' = Append(native, event)
    /\ calls' = Append(calls,
            tcw_wnd_widget_dpi_scale_changed_handler(wnd_ptr))
    /\ UNCHANGED wnd_ptr

\* Mutation of tcw_wnd_widget_button_press_event: the event type is not
\* tested, so GDK_2BUTTON_PRESS is forwarded as one more press.
button_press_event_unfiltered(event) ==
    /\ native' = Append(native, event)
    /\ calls' = Append(calls,
            tcw_wnd_widget_button_handler(wnd_ptr, ToFloat(event.pos[1]),
                ToFloat(event.pos[2]), 1, event.button - 1))
    /\ UNCHANGED wnd_ptr

\* Mutation of tcw_wnd_widget_button_press_event: the handler detects
\* double clicks itself and drops a press that repeats the previous event.
button_press_event_own_detection(event) ==
    /\ native' = Append(native, event)
    /\ IF \/ event.type # "GDK_BUTTON_PRESS"
          \/ (native # <<>> /\ native[Len(native)] = event)
       THEN calls' = calls
       ELSE calls' = Append(calls,
                tcw_wnd_widget_button_handler(wnd_ptr, ToFloat(event.pos[1]),
                    ToFloat(event.pos[2]), 1, event.button - 1))
    /\ UNCHANGED wnd_ptr

tcw_wnd_widget_button_press_event(event) ==
    /\ native' = Append(native, event)
    /\ IF event.type # "GDK_BUTTON_PRESS"
       THEN calls' = calls
       ELSE calls' = Append(calls,
                tcw_wnd_widget_button_handler(wnd_ptr, ToFloat(event.pos[1]),
                    ToFloat(event.pos[2]), 1, event.button - 1))
    /\ UNCHANGED wnd_ptr

\* Mutation of tcw_wnd_widget_button_release_event: the native button
\* number is passed as it is.
button_release_event_native_button(event) ==
    /\ native' = Append(native, event)
    /\ calls' = Append(calls,
            tcw_wnd_widget_button_handler(wnd_ptr, ToFloat(event.pos[1]),
                ToFloat(event.pos[2]), 0, event.button))
    /\ UNCHANGED wnd_ptr

tcw_wnd_widget_button_release_event(event) ==
    /\ native' = Append(native, event)
    /\ calls' = Append(calls,
            tcw_wnd_widget_button_handler(wnd_ptr, ToFloat(event.pos[1]),
                ToFloat(event.pos[2]), 0, event.button - 1))
    /\ UNCHANGED wnd_ptr

\* Mutation of tcw_wnd_widget_motion_notify_event: a motion that follows a
\* motion replaces the call already made (motion compression).
motion_notify_event_compressed(event) ==
    LET c == tcw_wnd_widget_motion_handler(wnd_ptr, ToFloat(event.pos[1]),
                 ToFloat(event.pos[2]))
    IN  /\ native' = Append(native, event)
        /\ IF calls # <<>> /\ calls[Len(calls)].fn = "motion_handler"
           THEN calls' = [calls EXCEPT ![Len(calls)] = c]
           ELSE calls' = Append(calls, c)
        /\ UNCHANGED wnd_ptr

tcw_wnd_widget_motion_notify_event(event) ==
    /\ native' = Append(native, event)
    /\ calls' = Append(calls,
            tcw_wnd_widget_motion_handler(wnd_ptr, ToFloat(event.pos[1]),
                ToFloat(event.pos[2])))
    /\ UNCHANGED wnd_ptr

tcw_wnd_widget_leave_notify_event(event) ==
    /\ native' = Append(native, event)
    /\ calls' = Append(calls, tcw_wnd_widget_leave_handler(wnd_ptr))
    /\ UNCHANGED wnd_ptr

\* tcw_wnd_widget_scroll_event for an event without deltas.
scroll_event_direction(event) ==
    IF gdk_event_get_scroll_direction(event)
    THEN calls' = Append(calls,
            tcw_wnd_widget_discrete_scroll_handler(wnd_ptr,
                ToFloat(event.pos[1]), ToFloat(event.pos[2]),
                steps(event.direction)[1], steps(event.direction)[2]))
    ELSE calls' = calls

\* Mutation of tcw_wnd_widget_scroll_event: the stop flag is tested before
\* the deltas.
scroll_event_stop_first(event) ==
    /\ native' = Append(native, event)
    /\ IF gdk_event_is_scroll_stop_event(event)
       THEN calls' = Append(calls,
                tcw_wnd_widget_smooth_scroll_stop_handler(wnd_ptr,
                    event.time))
       ELSE IF gdk_event_get_scroll_deltas(event)
            THEN calls' = Append(calls,
                    tcw_wnd_widget_smooth_scroll_handler(wnd_ptr,
                        ToFloat(event.pos[1]), ToFloat(event.pos[2]),
                        ToFloat(event.delta[1]), ToFloat(event.delta[2]),
                        event.time))
            ELSE scroll_event_direction(event)
    /\ UNCHANGED wnd_ptr

\* Mutation of tcw_wnd_widget_scroll_event: the stop flag is not tested,
\* and the stop event is forwarded as one more delta.
scroll_event_stop_untested(event) ==
    /\ native' = Append(native, event)
    /\ IF gdk_event_get_scroll_deltas(event)
       THEN calls' = Append(calls,
                tcw_wnd_widget_smooth_scroll_handler(wnd_ptr,
                    ToFloat(event.pos[1]), ToFloat(event.pos[2]),
                    ToFloat(event.delta[1]), ToFloat(event.delta[2]),
                    event.time))
       ELSE scroll_event_direction(event)
    /\ UNCHANGED wnd_ptr

\* Mutation of tcw_wnd_widget_scroll_event: the stop handler is passed
\* GDK_CURRENT_TIME (0) instead of the event's time.
scroll_event_current_time(event) ==
    /\ native' = Append(native, event)
    /\ IF gdk_event_get_scroll_deltas(event)
       THEN IF gdk_event_is_scroll_stop_event(event)
            THEN calls' = Append(calls,
                    tcw_wnd_widget_smooth_scroll_stop_handler(wnd_ptr, 0))
            ELSE calls' = Append(calls,
                    tcw_wnd_widget_smooth_scroll_handler(wnd_ptr,
                        ToFloat(event.pos[1]), ToFloat(event.pos[2]),
                        ToFloat(event.delta[1]), ToFloat(event.delta[2]),
                        event.time))
       ELSE scroll_event_direction(event)
    /\ UNCHANGED wnd_ptr

tcw_wnd_widget_scroll_event(event) ==
    /\ native' = Append(native, event)
    /\ IF gdk_event_get_scroll_deltas(event)
       THEN IF gdk_event_is_scroll_stop_event(event)
            THEN calls' = Append(calls,
                    tcw_wnd_widget_smooth_scroll_stop_handler(wnd_ptr,
                        event.time))
            ELSE calls' = Append(calls,
                    tcw_wnd_widget_smooth_scroll_handler(wnd_ptr,
                        ToFloat(event.pos[1]), ToFloat(event.pos[2]),
                        ToFloat(event.delta[1]), ToFloat(event.delta[2]),
                        event.time))
       ELSE scroll_event_direction(event)
    /\ UNCHANGED wnd_ptr

---------------------------------------------------------------------------
(* The opaque-handle protocol (TCWBridge.h).  A capability is created by   *)
(* the upstream core and handed to the native side, which calls its        *)
(* methods; release, cancel and fire are terminal and consume it.          *)

HandleIds == 1..MaxHandles

Kinds == {"mousedraglistener", "scrolllistener", "invoke"}

\* tcw_<kind>_<method>, the terminal ones.
TerminalMethods(kind) ==
    IF kind = "invoke" THEN {"fire", "cancel"} ELSE {"release", "cancel"}

NonTerminalMethods(kind) ==
    CASE kind = "mousedraglistener" -> {"mouse_motion", "mouse_down",
                                        "mouse_up"}
      [] kind = "scrolllistener" -> {"motion", "start_momentum_phase",
                                     "end"}
      [] OTHER -> {}

\* Mutation of StateAfter: cancel leaves the capability usable.
StateAfter_cancel_keeps(kind, method) ==
    IF method \in TerminalMethods(kind) \ {"cancel"}
    THEN "consumed" ELSE "live"

\* The state of a live capability after method was delivered.
StateAfter(kind, method) ==
    IF method \in TerminalMethods(kind) THEN "consumed" ELSE "live"

\* One call on handle h: delivered to the upstream state if the capability
\* is live, rejected if a terminal call has consumed it.
Call(h, method) ==
    IF handles[h].state = "live"
    THEN /\ handles' = [handles EXCEPT
                ![h].delivered = Append(@, method),
                ![h].state = StateAfter(handles[h].kind, method)]
         /\ attempts' = Append(attempts,
                [handle |-> h, method |-> method, outcome |-> "delivered"])
    ELSE /\ handles' = handles
         /\ attempts' = Append(attempts,
                [handle |-> h, method |-> method, outcome |-> "rejected"])

InitHandle ==
    /\ handles = [h \in HandleIds |->
                    [kind |-> "none", state |-> "unborn", delivered |-> <<>>]]
    /\ attempts = <<>>

\* tcw_wndlistener_mouse_drag, tcw_wndlistener_scroll_gesture or a timer's
\* construction returns a new capability.
NewCapability ==
    /\ \E h \in HandleIds, kind \in Kinds :
        /\ handles[h].state = "unborn"
        /\ handles' = [handles EXCEPT ![h].kind = kind, ![h].state = "live"]
    /\ UNCHANGED <<attempts, gtkvars, arbitervars>>

NonTerminalCall ==
    /\ Len(attempts) < MaxCalls
    /\ \E h \in HandleIds :
        /\ handles[h].state # "unborn"
        /\ \E method \in NonTerminalMethods(handles[h].kind) : Call(h, method)
    /\ UNCHANGED <<gtkvars, arbitervars>>

TerminalCall ==
    /\ Len(attempts) < MaxCalls
    /\ \E h \in HandleIds :
        /\ handles[h].state # "unborn"
        /\ \E method \in TerminalMethods(handles[h].kind) : Call(h, method)
    /\ UNCHANGED <<gtkvars, arbitervars>>

NextHandle ==
    \/ NewCapability
    \/ NonTerminalCall
    \/ TerminalCall

---------------------------------------------------------------------------
(* The gesture arbiter of one window (TCWGestureHandlerView,               *)
(* TCWWindowController).                                                   *)

GestureTypes == {"scroll", "drag"}

Active(type) == {s \in surfaces : s.type = type}

Request(op, type, outcome) ==
    requests' = Append(requests,
        [op |-> op, type |-> type, outcome |-> outcome])

\* Mutation of GestureStart: a start request made while a gesture of the
\* type is active replaces its transient surface.
GestureStart_replacing(type) ==
    /\ surfaces' = (surfaces \ Active(type))
                      \cup {[type |-> type, cap |-> nextCap + 1]}
    /\ nextCap' = nextCap + 1
    /\ gesture' = [gesture EXCEPT ![type] = "GestureActive"]
    /\ signals' = Append(signals, [sig |-> "begin", cap |-> nextCap + 1])
    /\ Request("start", type, "started")

\* The start of a gesture is detected: gestureStartedInView.
GestureStart(type) ==
    IF Active(type) # {}
    THEN /\ Request("start", type, "ignored")
         /\ UNCHANGED <<gesture, surfaces, nextCap, signals>>
    ELSE /\ surfaces' = surfaces \cup {[type |-> type, cap |-> nextCap + 1]}
         /\ nextCap' = nextCap + 1
         /\ gesture' = [gesture EXCEPT ![type] = "GestureActive"]
         /\ signals' = Append(signals,
                [sig |-> "begin", cap |-> nextCap + 1])
         /\ Request("start", type, "started")

\* The gesture completes: gestureEndedInView.
GestureEnd(type) ==
    /\ Active(type) # {}
    /\ LET s == CHOOSE s \in Active(type) : TRUE
       IN  /\ surfaces' = surfaces \ {s}
           /\ signals' = signals \o
                <<[sig |-> "release", cap |-> s.cap],
                  [sig |-> "gestureEndedInView", cap |-> s.cap]>>
    /\ gesture' = [gesture EXCEPT ![type] = "Released"]
    /\ Request("end", type, "released")
    /\ UNCHANGED nextCap

\* -[TCWGestureHandlerView cancelGesture]
cancelGesture(type) ==
    IF Active(type) = {}
    THEN /\ Request("cancel", type, "ignored")
         /\ UNCHANGED <<gesture, surfaces, nextCap, signals>>
    ELSE /\ LET s == CHOOSE s \in Active(type) : TRUE
            IN  /\ surfaces' = surfaces \ {s}
                /\ signals' = Append(signals,
                        [sig |-> "cancel", cap |-> s.cap])
         /\ gesture' = [gesture EXCEPT ![type] = "Cancelled"]
         /\ Request("cancel", type, "cancelled")
         /\ UNCHANGED nextCap

InitArbiter ==
    /\ gesture = [type \in GestureTypes |-> "Idle"]
    /\ surfaces = {}
    /\ nextCap = 0
    /\ signals = <<>>
    /\ requests = <<>>

StartRequest ==
    /\ Len(requests) < MaxRequests
    /\ \E type \in GestureTypes : GestureStart(type)
    /\ UNCHANGED <<gtkvars, handlevars>>

EndRequest ==
    /\ Len(requests) < MaxRequests
    /\ \E type \in GestureTypes : GestureEnd(type)
    /\ UNCHANGED <<gtkvars, handlevars>>

CancelRequest ==
    /\ Len(requests) < MaxRequests
    /\ \E type \in GestureTypes : cancelGesture(type)
    /\ UNCHANGED <<gtkvars, handlevars>>

NextArbiter ==
    \/ StartRequest
    \/ EndRequest
    \/ CancelRequest

---------------------------------------------------------------------------
\* tcw_wnd_widget_new: window.rs stores the window reference right after.
Init ==
    /\ wnd_ptr \in WndPtrs
    /\ native = <<>>
    /\ calls = <<>>
    /\ InitHandle
    /\ InitArbiter

\* widget_class->draw, as GTK's main loop invokes it.
draw ==
    /\ Len(native) < MaxEvents
    /\ \E event \in DrawEvents : tcw_wnd_widget_draw(event)
    /\ UNCHANGED <<handlevars, arbitervars>>

\* The handler connected to notify::scale-factor.
notify_scale_factor ==
    /\ Len(native) < MaxEvents
    /\ \E event \in ScaleFactorEvents :
            tcw_wnd_widget_notify_scale_factor(event)
    /\ UNCHANGED <<handlevars, arbitervars>>

button_press_event ==
    /\ Len(native) < MaxEvents
    /\ \E event \in ButtonPressEvents :
            tcw_wnd_widget_button_press_event(event)
    /\ UNCHANGED <<handlevars, arbitervars>>

button_release_event ==
    /\ Len(native) < MaxEvents
    /\ \E event \in ButtonReleaseEvents :
            tcw_wnd_widget_button_release_event(event)
    /\ UNCHANGED <<handlevars, arbitervars>>

motion_notify_event ==
    /\ Len(native) < MaxEvents
    /\ \E event \in MotionEvents :
            tcw_wnd_widget_motion_notify_event(event)
    /\ UNCHANGED <<handlevars, arbitervars>>

leave_notify_event ==
    /\ Len(native) < MaxEvents
    /\ \E event \in CrossingEvents :
            tcw_wnd_widget_leave_notify_event(event)
    /\ UNCHANGED <<handlevars, arbitervars>>

scroll_event ==
    /\ Len(native) < MaxEvents
    /\ \E event \in ScrollEvents :
            tcw_wnd_widget_scroll_event(event)
    /\ UNCHANGED <<handlevars, arbitervars>>

Next ==
    \/ draw
    \/ notify_scale_factor
    \/ button_press_event
    \/ button_release_event
    \/ motion_notify_event
    \/ leave_notify_event
    \/ scroll_event

Spec == Init /\ [][Next]_vars

SpecHandle == Init /\ [][NextHandle]_vars

SpecArbiter == Init /\ [][NextArbiter]_vars

---------------------------------------------------------------------------
(* Vocabulary of the properties.                                           *)

\* The upstream calls made while native event i was being handled.
CallsOf(i) == SelectSeq(calls, LAMBDA c : c.seq = i)

\* A call without its bookkeeping field.
Args(c) == [k \in DOMAIN c \ {"seq"} |-> c[k]]

IsPressCall(c) == c.fn = "button_handler" /\ c.is_pressed = 1
IsReleaseCall(c) == c.fn = "button_handler" /\ c.is_pressed = 0

\* f is one of the floats nearest to the gdouble v.
IsFloat(f) == Abs(f) % Quantum(Abs(f), 1) = 0
NearestFloat(v, f) == IsFloat(f) /\ 2 * Abs(f - v) <= Quantum(Abs(v), 1)

HasDelta(e) == e.direction = "GDK_SCROLL_SMOOTH"

ScrollIndices == {i \in 1..Len(native) : native[i].type = "GDK_SCROLL"}

\* The tag of a scroll event, read off the upstream handler it reached.
Classification(i) ==
    IF CallsOf(i) = <<>> THEN "none"
    ELSE CASE CallsOf(i)[1].fn = "discrete_scroll_handler" -> "discrete"
           [] CallsOf(i)[1].fn = "smooth_scroll_stop_handler" -> "momentum-stop"
           [] CallsOf(i)[1].fn = "smooth_scroll_handler" -> "continuous"
           [] OTHER -> "none"

---------------------------------------------------------------------------
(* C1: a press-handler event that is not GDK_BUTTON_PRESS makes no         *)
(* upstream call; an ordinary press and a release are each forwarded       *)
(* exactly once; so there are as many forwarded press calls as ordinary    *)
(* press events.                                                           *)
C1_DoubleClickDropped ==
    /\ \A i \in 1..Len(native) :
        /\ native[i].type \in {"GDK_2BUTTON_PRESS", "GDK_3BUTTON_PRESS"}
              => CallsOf(i) = <<>>
        /\ native[i].type = "GDK_BUTTON_PRESS"
              => Len(CallsOf(i)) = 1 /\ IsPressCall(CallsOf(i)[1])
        /\ native[i].type = "GDK_BUTTON_RELEASE"
              => Len(CallsOf(i)) = 1 /\ IsReleaseCall(CallsOf(i)[1])
    /\ Cardinality({j \in 1..Len(calls) : IsPressCall(calls[j])})
         = Cardinality({i \in 1..Len(native) :
                            native[i].type = "GDK_BUTTON_PRESS"})

\* An ordinary press followed by the synthetic double-click press.
C1_Witness ==
    /\ Len(native) = 2
    /\ native[1].type = "GDK_BUTTON_PRESS"
    /\ native[2].type = "GDK_2BUTTON_PRESS"
    /\ Len(calls) = 1

(* C2, as amended: a scroll event is classified discrete iff the backend   *)
(* reports no delta (whatever the stop flag), momentum-stop iff it reports *)
(* a delta and the stop flag is set, continuous iff it reports a delta and *)
(* the stop flag is clear; the upstream handler invoked is the one of the  *)
(* classification and it is invoked once.                                  *)
C2_Classification ==
    \A i \in ScrollIndices :
        /\ Len(CallsOf(i)) = 1
        /\ Classification(i) = "discrete" <=> ~HasDelta(native[i])
        /\ Classification(i) = "momentum-stop"
              <=> (HasDelta(native[i]) /\ native[i].is_stop)
        /\ Classification(i) = "continuous"
              <=> (HasDelta(native[i]) /\ ~native[i].is_stop)

\* C2 as stated: discrete iff no delta, momentum-stop iff the stop flag is
\* set, continuous otherwise.
C2_Original ==
    \A i \in ScrollIndices :
        /\ Classification(i) = "discrete" <=> ~HasDelta(native[i])
        /\ Classification(i) = "momentum-stop" <=> native[i].is_stop
        /\ Classification(i) = "continuous"
              <=> (HasDelta(native[i]) /\ ~native[i].is_stop)

\* The stop flag with and without a delta.
C2_Witness ==
    /\ Len(native) = 2
    /\ native[1].type = "GDK_SCROLL" /\ native[2].type = "GDK_SCROLL"
    /\ ~HasDelta(native[1]) /\ native[1].is_stop
    /\ HasDelta(native[2]) /\ native[2].is_stop
    /\ Classification(1) = "discrete"
    /\ Classification(2) = "momentum-stop"

(* C3: the delta vector passed to the discrete scroll handler is the table *)
(* entry of the event's direction: left (1,0), right (-1,0), up (0,1),     *)
(* down (0,-1), and nothing else.                                          *)
C3_DiscreteTable ==
    \A j \in 1..Len(calls) :
        calls[j].fn = "discrete_scroll_handler" =>
            LET d == native[calls[j].seq].direction
                v == <<calls[j].delta_x, calls[j].delta_y>>
            IN  /\ d = "GDK_SCROLL_LEFT" => v = <<1, 0>>
                /\ d = "GDK_SCROLL_RIGHT" => v = <<-1, 0>>
                /\ d = "GDK_SCROLL_UP" => v = <<0, 1>>
                /\ d = "GDK_SCROLL_DOWN" => v = <<0, -1>>
                /\ v \in {<<1, 0>>, <<-1, 0>>, <<0, 1>>, <<0, -1>>}

\* A step up and then a step to the right.
C3_Witness ==
    /\ Len(calls) = 2
    /\ native[1].type = "GDK_SCROLL" /\ native[1].direction = "GDK_SCROLL_UP"
    /\ native[2].type = "GDK_SCROLL"
    /\ native[2].direction = "GDK_SCROLL_RIGHT"
    /\ calls[1].fn = "discrete_scroll_handler"
    /\ calls[2].fn = "discrete_scroll_handler"

ButtonCallIndices ==
    {j \in 1..Len(calls) : calls[j].fn = "button_handler"}

SameButtonIndex ==
    \A j, k \in ButtonCallIndices :
        native[calls[j].seq].button = native[calls[k].seq].button
            => calls[j].button = calls[k].button

(* C4, as amended: the upstream button handler receives the event's        *)
(* position converted to float (the nearest float, so the position itself  *)
(* whenever it is a float, as (10,20) is), the pressed flag 1 for a press  *)
(* and 0 for a release, and the native button number minus one, the same   *)
(* index for the press and the release of one button.                      *)
C4_ButtonArguments ==
    /\ \A j \in ButtonCallIndices :
        LET c == calls[j]
            e == native[c.seq]
        IN  /\ e.type \in {"GDK_BUTTON_PRESS", "GDK_BUTTON_RELEASE"}
            /\ NearestFloat(e.pos[1], c.x) /\ NearestFloat(e.pos[2], c.y)
            /\ IsFloat(e.pos[1]) => c.x = e.pos[1]
            /\ IsFloat(e.pos[2]) => c.y = e.pos[2]
            /\ c.is_pressed = (IF e.type = "GDK_BUTTON_PRESS" THEN 1 ELSE 0)
            /\ c.button = e.button - 1
    /\ SameButtonIndex

\* C4 as stated: the position is received unchanged.
C4_Original ==
    /\ \A j \in ButtonCallIndices :
        LET c == calls[j]
            e == native[c.seq]
        IN  /\ e.type \in {"GDK_BUTTON_PRESS", "GDK_BUTTON_RELEASE"}
            /\ c.x = e.pos[1] /\ c.y = e.pos[2]
            /\ c.is_pressed = (IF e.type = "GDK_BUTTON_PRESS" THEN 1 ELSE 0)
            /\ c.button = e.button - 1
    /\ SameButtonIndex

\* Native button 1 pressed and released at (10,20).
C4_Witness ==
    /\ Len(calls) = 2
    /\ native[1] = [type |-> "GDK_BUTTON_PRESS", pos |-> <<Px(10), Px(20)>>,
                    button |-> 1]
    /\ native[2] = [type |-> "GDK_BUTTON_RELEASE", pos |-> <<Px(10), Px(20)>>,
                    button |-> 1]
    /\ Args(calls[1]) = [fn |-> "button_handler", wnd_ptr |-> wnd_ptr,
                         x |-> Px(10), y |-> Px(20), is_pressed |-> 1,
                         button |-> 0]
    /\ Args(calls[2]) = [fn |-> "button_handler", wnd_ptr |-> wnd_ptr,
                         x |-> Px(10), y |-> Px(20), is_pressed |-> 0,
                         button |-> 0]

\* Call c carries what native event e holds: the handler is the one of the
\* event's kind, with the event's position, button and timestamp.
Carries(c, e) ==
    /\ c.fn = CASE e.type \in {"GDK_BUTTON_PRESS", "GDK_BUTTON_RELEASE"}
                     -> "button_handler"
                [] e.type = "draw" -> "draw_handler"
                [] e.type = "notify::scale-factor"
                     -> "dpi_scale_changed_handler"
                [] e.type = "GDK_MOTION_NOTIFY" -> "motion_handler"
                [] e.type = "GDK_LEAVE_NOTIFY" -> "leave_handler"
                [] e.type = "GDK_SCROLL" /\ ~HasDelta(e)
                     -> "discrete_scroll_handler"
                [] e.type = "GDK_SCROLL" /\ HasDelta(e) /\ e.is_stop
                     -> "smooth_scroll_stop_handler"
                [] e.type = "GDK_SCROLL" /\ HasDelta(e) /\ ~e.is_stop
                     -> "smooth_scroll_handler"
                [] OTHER -> "none"
    /\ "x" \in DOMAIN c
          => NearestFloat(e.pos[1], c.x) /\ NearestFloat(e.pos[2], c.y)
    /\ "button" \in DOMAIN c => c.button = e.button - 1
    /\ "time" \in DOMAIN c => c.time = e.time

IsPrefix(s, t) == Len(s) <= Len(t) /\ SubSeq(t, 1, Len(s)) = s

(* C5: the upstream calls are made in the order of the native events: a    *)
(* native event produces at most one call, made while that event is being  *)
(* handled and carrying that event's data; a call once made is never       *)
(* withdrawn, merged with another or moved.                                *)
C5_Order ==
    /\ [](/\ \A j \in 1..Len(calls) :
                /\ calls[j].seq \in 1..Len(native)
                /\ Carries(calls[j], native[calls[j].seq])
          /\ \A j, k \in 1..Len(calls) :
                j < k => calls[j].seq < calls[k].seq)
    /\ [][/\ IsPrefix(calls, calls')
          /\ Len(calls') <= Len(calls) + 1
          /\ Len(calls') = Len(calls) + 1
                => calls'[Len(calls')].seq = Len(native')]_vars

\* A motion, then a scroll step: two calls in that order.
C5_Witness ==
    /\ Len(native) = 2 /\ Len(calls) = 2
    /\ native[1].type = "GDK_MOTION_NOTIFY" /\ native[2].type = "GDK_SCROLL"
    /\ calls[1].fn = "motion_handler" /\ calls[1].seq = 1
    /\ calls[2].fn = "discrete_scroll_handler" /\ calls[2].seq = 2

\* After a stop call, a continuous call is made only for a continuous
\* event the backend delivers later (the first event of a new gesture).
NoContinuousAfterStop ==
    \A j, k \in 1..Len(calls) :
        (j < k /\ calls[j].fn = "smooth_scroll_stop_handler"
               /\ calls[k].fn = "smooth_scroll_handler")
          => /\ calls[j].seq < calls[k].seq
             /\ HasDelta(native[calls[k].seq])
             /\ ~native[calls[k].seq].is_stop

StopForwarded(i) ==
    /\ Len(CallsOf(i)) = 1
    /\ CallsOf(i)[1].fn = "smooth_scroll_stop_handler"
    /\ CallsOf(i)[1].time = native[i].time
    /\ DOMAIN CallsOf(i)[1] \cap {"delta_x", "delta_y"} = {}

TimestampsMonotone ==
    (\A i, j \in ScrollIndices : i < j => native[i].time <= native[j].time)
      => \A j, k \in 1..Len(calls) :
            (j < k /\ "time" \in DOMAIN calls[j] /\ "time" \in DOMAIN calls[k])
               => calls[j].time <= calls[k].time

(* C9, as amended: every continuous-scroll and scroll-stop call carries    *)
(* the backend's timestamp of its event, unmodified, and the bridge makes  *)
(* up no timestamp; the discrete scroll call carries no timestamp at all;  *)
(* when the backend's timestamps are non-decreasing, so are the            *)
(* timestamps of the continuous and stop calls.                            *)
C9_Timestamps ==
    /\ \A j \in 1..Len(calls) :
        /\ calls[j].fn \in {"smooth_scroll_handler",
                            "smooth_scroll_stop_handler"}
              => /\ "time" \in DOMAIN calls[j]
                 /\ calls[j].time = native[calls[j].seq].time
        /\ calls[j].fn = "discrete_scroll_handler"
              => "time" \notin DOMAIN calls[j]
    /\ TimestampsMonotone

\* C9 as stated: the discrete scroll call carries the timestamp too.
C9_Original ==
    /\ \A j \in 1..Len(calls) :
        calls[j].fn \in {"smooth_scroll_handler", "discrete_scroll_handler"}
           => /\ "time" \in DOMAIN calls[j]
              /\ calls[j].time = native[calls[j].seq].time
    /\ TimestampsMonotone

\* A scroll step at t = 100, then a delta at t = 150.
C9_Witness ==
    /\ Len(native) = 2 /\ Len(calls) = 2
    /\ native[1].type = "GDK_SCROLL" /\ ~HasDelta(native[1])
    /\ native[1].time = 100
    /\ native[2].type = "GDK_SCROLL" /\ HasDelta(native[2])
    /\ ~native[2].is_stop /\ native[2].time = 150
    /\ calls[1].fn = "discrete_scroll_handler"
    /\ calls[2].fn = "smooth_scroll_handler" /\ calls[2].time = 150

ArgsOf(i) == [k \in 1..Len(CallsOf(i)) |-> Args(CallsOf(i)[k])]

(* C10: the adapter holds no state across calls: the upstream call made    *)
(* for a native event (which handler, if any, and its arguments) is the    *)
(* same whenever the same event is delivered, whatever came before; no     *)
(* handler modifies wnd_ptr, and every upstream call receives it as its    *)
(* first argument.                                                         *)
C10_Stateless ==
    /\ [](/\ \A i, j \in 1..Len(native) :
                native[i] = native[j] => ArgsOf(i) = ArgsOf(j)
          /\ \A j \in 1..Len(calls) : calls[j].wnd_ptr = wnd_ptr)
    /\ [][wnd_ptr' = wnd_ptr]_vars

\* The same press delivered twice in a row.
C10_Witness ==
    /\ Len(native) = 2 /\ Len(calls) = 2
    /\ native[1] = native[2]
    /\ native[1].type = "GDK_BUTTON_PRESS"
    /\ Args(calls[1]) = Args(calls[2])

---------------------------------------------------------------------------
\* The positions in handle h's delivered calls that hold a terminal call.
TerminalsDelivered(h) ==
    {i \in 1..Len(handles[h].delivered) :
        handles[h].delivered[i] \in TerminalMethods(handles[h].kind)}

\* The attempts made on handle h before attempt n.
Before(n, h) == {m \in 1..(n - 1) : attempts[m].handle = h}

(* C7: a capability handle (drag listener, scroll listener, timer          *)
(* invocation) accepts one terminal call over its lifetime: whatever the   *)
(* order of the calls on it, at most one terminal call is delivered, a     *)
(* later terminal call is rejected and delivers nothing, and no            *)
(* non-terminal call is delivered after the terminal one.                  *)
C7_OneTerminalCall ==
    /\ \A h \in HandleIds :
        /\ Cardinality(TerminalsDelivered(h)) <= 1
        /\ \A i \in TerminalsDelivered(h) : i = Len(handles[h].delivered)
        /\ handles[h].state = "consumed" <=> TerminalsDelivered(h) # {}
    /\ \A n \in 1..Len(attempts) :
        LET h == attempts[n].handle
            terminalBefore ==
                \E m \in Before(n, h) :
                    attempts[m].method \in TerminalMethods(handles[h].kind)
        IN  attempts[n].outcome = "rejected" <=> terminalBefore

\* A drag listener is moved, released, and then cancelled: the cancel is
\* rejected.
C7_Witness ==
    \E h \in HandleIds :
        /\ handles[h].kind = "mousedraglistener"
        /\ handles[h].delivered = <<"mouse_motion", "release">>
        /\ attempts =
            <<[handle |-> h, method |-> "mouse_motion",
               outcome |-> "delivered"],
              [handle |-> h, method |-> "release", outcome |-> "delivered"],
              [handle |-> h, method |-> "cancel", outcome |-> "rejected"]>>

Signalled(sig) == {signals[i].cap : i \in {j \in 1..Len(signals) :
                                              signals[j].sig = sig}}

\* The step is request op for a gesture type.
Requested(op, type) ==
    /\ Len(requests') = Len(requests) + 1
    /\ requests'[Len(requests')].op = op
    /\ requests'[Len(requests')].type = type

(* C8: in every reachable state at most one transient capture surface is   *)
(* active per gesture type in the window; a gesture-start request of a     *)
(* type whose gesture is GestureActive is ignored, leaves the active       *)
(* gesture's capability untouched and issues no new capability; and        *)
(* cancelling the active gesture delivers the cancellation callback        *)
(* without gestureEndedInView.                                             *)
C8_OneTransientSurface ==
    /\ [](/\ \A type \in GestureTypes :
                /\ Cardinality(Active(type)) <= 1
                /\ gesture[type] = "GestureActive" <=> Active(type) # {}
          /\ Signalled("cancel") \cap Signalled("gestureEndedInView") = {}
          /\ Signalled("cancel") \cap Signalled("release") = {})
    /\ [][\A type \in GestureTypes :
            /\ (Requested("start", type) /\ gesture[type] = "GestureActive")
                  => /\ requests'[Len(requests')].outcome = "ignored"
                     /\ UNCHANGED <<gesture, surfaces, nextCap, signals>>
            /\ (Requested("cancel", type) /\ gesture[type] = "GestureActive")
                  => /\ \E s \in Active(type) :
                            signals' = Append(signals,
                                [sig |-> "cancel", cap |-> s.cap])
                     /\ Active(type)' = {}]_vars

\* A scroll gesture starts, a second start is ignored, and the gesture is
\* cancelled.
C8_Witness ==
    /\ requests =
        <<[op |-> "start", type |-> "scroll", outcome |-> "started"],
          [op |-> "start", type |-> "scroll", outcome |-> "ignored"],
          [op |-> "cancel", type |-> "scroll", outcome |-> "cancelled"]>>
    /\ signals = <<[sig |-> "begin", cap |-> 1], [sig |-> "cancel", cap |-> 1]>>
    /\ nextCap = 1
    /\ gesture["scroll"] = "Cancelled"

===========================================================================
